---- MODULE Spec2Model ----
(***************************************************************************)
(* Model of the rate-limit plugin of pisa-proxy                            *)
(* (pisa-proxy/plugin/src/limit/mod.rs): a LimitLayer holding the rule     *)
(* configuration, the Limit service it builds around a downstream service, *)
(* the shared table Arc<Mutex<Vec<LimitInstance>>>, and caller threads     *)
(* that each own a clone of the service and call handle / add_permits.     *)
(*                                                                         *)
(* Option<T> is modelled as a sequence: None is <<>>, Some(x) is <<x>>.    *)
(* Rule indices are 0-based as in the code; sequences are 1-based.         *)
(* Time is a monotonic integer clock (std::time::Instant).                 *)
(***************************************************************************)
EXTENDS Integers, Sequences, FiniteSets, TLC

\* ---------------------------------------------------------------- bounds
NumThreads == 2      \* caller threads, each with its own clone of the service
MaxCalls == 4        \* handle calls issued in one run, over all threads
MaxReleases == 1     \* add_permits calls issued in one run, over all threads
MaxTime == 2         \* the clock runs from 0 to MaxTime
MaxLimit == 1        \* rule capacities range over 0..MaxLimit

Threads == 1..NumThreads
Inputs == {"a", "b"}
NoOwner == 0

\* ---------------------------------------------------------------- Option
None == <<>>
Some(x) == <<x>>
is_none(o) == o = <<>>
is_some(o) == o # <<>>
unwrap(o) == o[1]

\* ---------------------------------------------------------------- regex
\* Regex::new succeeds on a well-formed pattern; "(" is an unclosed group.
regex_compiles(p) == p # "("

\* Regex::is_match for the patterns and inputs of the model.
is_match(p, inp) ==
    CASE p = "a" -> inp = "a"
      [] p = "[ab]" -> inp \in {"a", "b"}
      [] OTHER -> FALSE

\* ---------------------------------------------------------------- config
\* config::Limit: { regex, limit, duration }
Rule(re, n, d) == [regex |-> re, limit |-> n, duration |-> d]

\* The rule lists a LimitLayer is built from: empty; one rule of any capacity
\* (or with a pattern that does not compile); two rules with every combination
\* of overlapping patterns, so that an input may match none, one or both.
RuleLists ==
    {<<>>, <<Rule("(", 1, 1)>>}
    \cup {<<Rule("a", n, 1)>> : n \in 0..MaxLimit}
    \cup {<<Rule(p, 1, 1), Rule(q, MaxLimit, 1)>> : p \in {"a", "[ab]"}, q \in {"a", "[ab]"}}

Configs == {None} \cup {Some(l) : l \in RuleLists}

VARIABLES
    config,     \* LimitLayer.config : Option<Vec<config::Limit>>
    built,      \* "no" before LimitLayer::layer ran, then "yes", or "panic"
    wrap_svc,   \* Limit.instances of the built service: None or Some(table ref)
    tables,     \* heap of tables: each [owner, v], owner the Mutex holder
    svc,        \* svc[t]: Limit.instances of thread t's clone
    pc,         \* pc[t]: where thread t is
    input,      \* input[t]: the input of thread t's current handle call
    ret,        \* ret[t]: (idx, is_allow) returned by is_allow to handle
    arg,        \* arg[t]: the idx of thread t's current add_permits call
    last,       \* what the handle call that returned in the latest step returned
    now,        \* the clock
    stats       \* history: counters per rule index, for stating the claims

vars == <<config, built, wrap_svc, tables, svc, pc, input, ret, arg, last, now, stats>>

RuleIdx == {0, 1}
ZeroPerRule == [i \in RuleIdx |-> 0]
Bump(f, i) == [f EXCEPT ![i] = @ + 1]

\* ---------------------------------------------------------------- semaphore
\* Variant: the permit is dropped instead of forgotten, which gives it back.
try_acquire_dropped(permits) == [ok |-> permits > 0, permits |-> permits]

\* Variant: the error of try_acquire_owned is not looked at.
try_acquire_unchecked(permits) ==
    [ok |-> TRUE, permits |-> IF permits > 0 THEN permits - 1 ELSE 0]

\* tokio Semaphore::try_acquire_owned followed by OwnedSemaphorePermit::forget:
\* takes one permit if there is one, and the permit is never given back on drop.
try_acquire(permits) ==
    IF permits > 0 THEN [ok |-> TRUE, permits |-> permits - 1]
    ELSE [ok |-> FALSE, permits |-> permits]

\* Variant: the release adds nothing.
add_no_permit(permits) == permits

\* Semaphore::add_permits(1)
add_one_permit(permits) == permits + 1

\* Instant::elapsed of a start_at read at clock value t
elapsed(start_at, t) == t - start_at

\* ---------------------------------------------------------------- LimitLayer
\* One LimitInstance per rule: full semaphore, window not opened.
NewInstance(c) ==
    [regex |-> c.regex, limit_size |-> c.limit, permits |-> c.limit,
     duration |-> c.duration, start_at |-> None]

\* create_instances panics in Regex::new(..).unwrap() on a pattern that does
\* not compile.
create_instances_panics(cfg) ==
    is_some(cfg) /\ \E i \in 1..Len(unwrap(cfg)) : ~regex_compiles(unwrap(cfg)[i].regex)

create_instances(cfg) ==
    IF is_some(cfg)
    THEN Some([i \in 1..Len(unwrap(cfg)) |-> NewInstance(unwrap(cfg)[i])])
    ELSE None

\* Variant: a clone gets a table of its own, a copy of the original's.
CloneLimitDeep(ts, instances) ==
    IF is_some(instances)
    THEN [tables |-> Append(ts, ts[unwrap(instances)]), instances |-> Some(Len(ts) + 1)]
    ELSE [tables |-> ts, instances |-> instances]

\* #[derive(Clone)] on Limit<S>: the Option<Arc<Mutex<..>>> is cloned, which
\* copies the reference; the heap of tables is left as it is.
CloneLimit(ts, instances) == [tables |-> ts, instances |-> instances]

\* ---------------------------------------------------------------- is_allow
\* Variant: the window is closed but the semaphore is not replaced.
ReinitNoRefill(c) == [c EXCEPT !.start_at = None]

\* Variant: the semaphore is replaced but the window is left as it was.
ReinitKeepWindow(c) == [c EXCEPT !.permits = c.limit_size]

\* "enter next loop, reinit `Semaphore` and `start_at`": the window is closed
\* and a new semaphore of limit_size permits replaces the old one.
Reinit(c) == [c EXCEPT !.start_at = None, !.permits = c.limit_size]

\* Variant: a sliding window, every admission in the window restarts it.
VisitSliding(v, i, t) ==
    LET c == v[i] IN
    IF is_none(c.start_at)
    THEN LET permit == try_acquire(c.permits) IN
         [v |-> [v EXCEPT ![i] = [c EXCEPT !.start_at = Some(t),
                                           !.permits = permit.permits]],
          ret |-> <<Some(i - 1), permit.ok>>]
    ELSE IF elapsed(unwrap(c.start_at), t) > c.duration
    THEN [v |-> [v EXCEPT ![i] = Reinit(c)], ret |-> <<None, TRUE>>]
    ELSE LET permit == try_acquire(c.permits) IN
         [v |-> [v EXCEPT ![i] = [c EXCEPT !.start_at = IF permit.ok THEN Some(t) ELSE @,
                                           !.permits = permit.permits]],
          ret |-> <<Some(i - 1), permit.ok>>]

\* Variant: the window counts as expired once elapsed() reaches the duration.
VisitNonStrict(v, i, t) ==
    LET c == v[i] IN
    IF is_none(c.start_at)
    THEN LET permit == try_acquire(c.permits) IN
         [v |-> [v EXCEPT ![i] = [c EXCEPT !.start_at = Some(t),
                                           !.permits = permit.permits]],
          ret |-> <<Some(i - 1), permit.ok>>]
    ELSE IF elapsed(unwrap(c.start_at), t) >= c.duration
    THEN [v |-> [v EXCEPT ![i] = Reinit(c)], ret |-> <<None, TRUE>>]
    ELSE LET permit == try_acquire(c.permits) IN
         [v |-> [v EXCEPT ![i] = [c EXCEPT !.permits = permit.permits]],
          ret |-> <<Some(i - 1), permit.ok>>]

\* Variant: the call that finds the window expired reinitialises the rule and
\* is then charged to the new window like any other.
VisitChargeAfterExpiry(v, i, t) ==
    LET c == IF is_some(v[i].start_at) /\ elapsed(unwrap(v[i].start_at), t) > v[i].duration
             THEN Reinit(v[i]) ELSE v[i]
        permit == try_acquire(c.permits)
    IN [v |-> [v EXCEPT ![i] = [c EXCEPT !.start_at = IF is_none(@) THEN Some(t) ELSE @,
                                         !.permits = permit.permits]],
        ret |-> <<Some(i - 1), permit.ok>>]

\* The body of the loop of is_allow for a rule whose regex matched: rule i
\* (1-based position in v), clock value t. Returns the table and (idx, allow).
Visit(v, i, t) ==
    LET c == v[i] IN
    IF is_none(c.start_at)
    THEN LET permit == try_acquire(c.permits) IN
         [v |-> [v EXCEPT ![i] = [c EXCEPT !.start_at = Some(t),
                                           !.permits = permit.permits]],
          ret |-> <<Some(i - 1), permit.ok>>]
    ELSE IF elapsed(unwrap(c.start_at), t) > c.duration
    THEN [v |-> [v EXCEPT ![i] = Reinit(c)], ret |-> <<None, TRUE>>]
    ELSE LET permit == try_acquire(c.permits) IN
         [v |-> [v EXCEPT ![i] = [c EXCEPT !.permits = permit.permits]],
          ret |-> <<Some(i - 1), permit.ok>>]

\* Variant: the loop goes on after the first match and charges every rule
\* that matches, returning what the first one decided.
RECURSIVE ScanAll(_, _, _, _)
ScanAll(v, i, inp, t) ==
    IF i > Len(v) THEN [v |-> v, ret |-> <<None, TRUE>>]
    ELSE IF ~is_match(v[i].regex, inp) THEN ScanAll(v, i + 1, inp, t)
    ELSE LET first == Visit(v, i, t) IN
         [v |-> ScanAll(first.v, i + 1, inp, t).v, ret |-> first.ret]

\* Variant: an input no rule matches is denied.
RECURSIVE ScanDenyUnmatched(_, _, _, _)
ScanDenyUnmatched(v, i, inp, t) ==
    IF i > Len(v) THEN [v |-> v, ret |-> <<None, FALSE>>]
    ELSE IF ~is_match(v[i].regex, inp) THEN ScanDenyUnmatched(v, i + 1, inp, t)
    ELSE Visit(v, i, t)

\* The loop of is_allow from position i on: skip the rules that do not match,
\* return from the first that does; (None, true) when the loop runs out.
RECURSIVE Scan(_, _, _, _)
Scan(v, i, inp, t) ==
    IF i > Len(v) THEN [v |-> v, ret |-> <<None, TRUE>>]
    ELSE IF ~is_match(v[i].regex, inp) THEN Scan(v, i + 1, inp, t)
    ELSE Visit(v, i, t)

\* ---------------------------------------------------------------- results
NoRet == <<None, FALSE>>
NoInput == ""

\* What a handle call returned: Ok((idx, out)) or Err(e).
\* NoResult stands for "the latest step was not a return of handle".
NoResult == [tag |-> "NoResult", idx |-> None, val |-> ""]
Ok(idx, out) == [tag |-> "Ok", idx |-> idx, val |-> out]
Err(e) == [tag |-> "Err", idx |-> None, val |-> e]

\* What the inner service may return: Ok, or an error of its own. The test's
\* service has Error = PluginError, the type LimitPluginReject belongs to, so
\* the inner service's error may be that very value.
InnerErrors == {"Inner", "LimitPluginReject"}
InnerOutcomes == {"Ok"} \cup InnerErrors

\* History: the position (1-based) of the first rule of v matching inp, or 0.
FirstMatch(v, inp) ==
    LET S == {i \in 1..Len(v) : is_match(v[i].regex, inp)} IN
    IF S = {} THEN 0 ELSE CHOOSE i \in S : \A j \in S : i <= j

\* History update for one evaluation of is_allow on table v.
Record(st, v, inp, r) ==
    LET m == FirstMatch(v, inp) IN
    IF m = 0 THEN st
    ELSE [st EXCEPT
            !.matched = Bump(@, m - 1),
            !.admitted = IF is_some(r[1]) /\ r[2] THEN Bump(@, unwrap(r[1])) ELSE @,
            !.rejected = IF is_some(r[1]) /\ ~r[2] THEN Bump(@, unwrap(r[1])) ELSE @,
            !.passes = IF is_none(r[1]) /\ r[2]
                       THEN [@ EXCEPT ![m - 1] = Append(@, v[m].start_at)] ELSE @]

\* ---------------------------------------------------------------- Init
Init ==
    /\ config \in Configs
    /\ built = "no"
    /\ wrap_svc = None
    /\ tables = <<>>
    /\ svc = [t \in Threads |-> None]
    /\ pc = [t \in Threads |-> "new"]
    /\ input = [t \in Threads |-> NoInput]
    /\ ret = [t \in Threads |-> NoRet]
    /\ arg = [t \in Threads |-> 0]
    /\ last = NoResult
    /\ now = 0
    /\ stats = [calls |-> 0, releases |-> 0,
                matched |-> ZeroPerRule, admitted |-> ZeroPerRule,
                rejected |-> ZeroPerRule, released |-> ZeroPerRule,
                passes |-> [i \in RuleIdx |-> <<>>]]

\* ---------------------------------------------------------------- actions
\* LimitLayer::layer: build the table (if any) and the service around it.
Layer ==
    /\ built = "no"
    /\ IF create_instances_panics(config)
       THEN /\ built' = "panic"
            /\ UNCHANGED <<tables, wrap_svc>>
       ELSE LET instances == create_instances(config) IN
            /\ built' = "yes"
            /\ IF is_some(instances)
               THEN /\ tables' = Append(tables, [owner |-> NoOwner, v |-> unwrap(instances)])
                    /\ wrap_svc' = Some(Len(tables) + 1)
               ELSE UNCHANGED <<tables, wrap_svc>>
    /\ last' = NoResult
    /\ UNCHANGED <<config, arg, svc, pc, input, ret, now, stats>>

\* The test's loop: wrap_svc.clone() moved into a new thread, in thread order.
Spawn(t) ==
    /\ built = "yes"
    /\ pc[t] = "new"
    /\ \A u \in Threads : u < t => pc[u] # "new"
    /\ LET c == CloneLimit(tables, wrap_svc) IN
       /\ tables' = c.tables
       /\ svc' = [svc EXCEPT ![t] = c.instances]
    /\ pc' = [pc EXCEPT ![t] = "idle"]
    /\ last' = NoResult
    /\ UNCHANGED <<config, arg, built, wrap_svc, input, ret, now, stats>>

\* Thread t calls handle(inp); handle calls is_allow, which goes for the lock.
Handle(t, inp) ==
    /\ pc[t] = "idle"
    /\ stats.calls < MaxCalls
    /\ pc' = [pc EXCEPT ![t] = "is_allow"]
    /\ input' = [input EXCEPT ![t] = inp]
    /\ stats' = [stats EXCEPT !.calls = @ + 1]
    /\ last' = NoResult
    /\ UNCHANGED <<config, arg, built, wrap_svc, tables, svc, ret, now>>

\* Variant: the inner service is called whatever is_allow said.
AfterIsAllowUnchecked(t, r) ==
    /\ pc' = [pc EXCEPT ![t] = "inner"]
    /\ ret' = [ret EXCEPT ![t] = r]
    /\ last' = NoResult
    /\ UNCHANGED input

\* What handle does with is_allow's (idx, is_allow) r: call the inner service,
\* or return Err(LimitPluginReject).
AfterIsAllow(t, r) ==
    IF r[2]
    THEN /\ pc' = [pc EXCEPT ![t] = "inner"]
         /\ ret' = [ret EXCEPT ![t] = r]
         /\ last' = NoResult
         /\ UNCHANGED input
    ELSE /\ pc' = [pc EXCEPT ![t] = "idle"]
         /\ ret' = [ret EXCEPT ![t] = NoRet]
         /\ input' = [input EXCEPT ![t] = NoInput]
         /\ last' = Err("LimitPluginReject")

\* Variant: a service without a table denies.
IsAllowNoTableDeny(t) ==
    /\ pc[t] = "is_allow"
    /\ is_none(svc[t])
    /\ AfterIsAllow(t, <<None, FALSE>>)
    /\ UNCHANGED <<config, arg, built, wrap_svc, tables, svc, now, stats>>

\* is_allow of a service without a table: (None, true), no lock taken.
IsAllowNoTable(t) ==
    /\ pc[t] = "is_allow"
    /\ is_none(svc[t])
    /\ AfterIsAllow(t, <<None, TRUE>>)
    /\ UNCHANGED <<config, arg, built, wrap_svc, tables, svc, now, stats>>

\* is_allow of a service with a table: instances.lock() (which waits until the
\* Mutex is free), the loop under the lock, the guard dropped on return, and
\* handle's branch on the result.
IsAllow(t) ==
    /\ pc[t] = "is_allow"
    /\ is_some(svc[t])
    /\ tables[unwrap(svc[t])].owner = NoOwner
    /\ LET ref == unwrap(svc[t])
           s == Scan(tables[ref].v, 1, input[t], now)
       IN /\ tables' = [tables EXCEPT ![ref] = [owner |-> NoOwner, v |-> s.v]]
          /\ stats' = Record(stats, tables[ref].v, input[t], s.ret)
          /\ AfterIsAllow(t, s.ret)
    /\ UNCHANGED <<config, arg, built, wrap_svc, svc, now>>

\* Variant: handle gives the permit back when the inner service returns.
InnerReturnAutoRelease(t, o) ==
    /\ pc[t] = "inner"
    /\ pc' = [pc EXCEPT ![t] = "idle"]
    /\ last' = IF o = "Ok" THEN Ok(ret[t][1], input[t]) ELSE Err(o)
    /\ ret' = [ret EXCEPT ![t] = NoRet]
    /\ input' = [input EXCEPT ![t] = NoInput]
    /\ tables' = IF is_some(ret[t][1])
                 THEN [tables EXCEPT ![unwrap(svc[t])].v[unwrap(ret[t][1]) + 1].permits = @ + 1]
                 ELSE tables
    /\ UNCHANGED <<config, arg, built, wrap_svc, svc, now, stats>>

\* self.inner.handle(input) returns with outcome o: Ok(out) gives
\* Ok((idx, out)), Err(e) is passed on as it is. The downstream service echoes
\* its input, as the test's does.
InnerReturn(t, o) ==
    /\ pc[t] = "inner"
    /\ pc' = [pc EXCEPT ![t] = "idle"]
    /\ last' = IF o = "Ok" THEN Ok(ret[t][1], input[t]) ELSE Err(o)
    /\ ret' = [ret EXCEPT ![t] = NoRet]
    /\ input' = [input EXCEPT ![t] = NoInput]
    /\ UNCHANGED <<config, arg, built, wrap_svc, tables, svc, now, stats>>

\* Thread t calls add_permits(idx): self.instances.as_mut().unwrap() panics
\* without a table; otherwise instances.lock() (which waits until the Mutex is
\* free) and instances[idx].semaphore.add_permits(1) under the lock; indexing
\* past the end panics, and unwinding drops the guard.
AddPermits(t, idx) ==
    /\ pc[t] = "idle"
    /\ stats.releases < MaxReleases
    /\ IF is_none(svc[t])
       THEN /\ pc' = [pc EXCEPT ![t] = "panicked"]
            /\ stats' = [stats EXCEPT !.releases = @ + 1]
            /\ UNCHANGED tables
       ELSE LET ref == unwrap(svc[t])
                v == tables[ref].v
            IN /\ tables[ref].owner = NoOwner
               /\ IF idx + 1 > Len(v)
                  THEN /\ pc' = [pc EXCEPT ![t] = "panicked"]
                       /\ stats' = [stats EXCEPT !.releases = @ + 1]
                       /\ UNCHANGED tables
                  ELSE /\ tables' = [tables EXCEPT ![ref] =
                             [owner |-> NoOwner,
                              v |-> [v EXCEPT ![idx + 1].permits = add_one_permit(@)]]]
                       /\ stats' = [stats EXCEPT !.releases = @ + 1,
                                                 !.released = Bump(@, idx)]
                       /\ UNCHANGED pc
    /\ last' = NoResult
    /\ UNCHANGED <<config, arg, built, wrap_svc, svc, input, ret, now>>

\* Time passes.
Tick ==
    /\ now < MaxTime
    /\ now' = now + 1
    /\ last' = NoResult
    /\ UNCHANGED <<config, arg, built, wrap_svc, tables, svc, pc, input, ret, stats>>

Next ==
    \/ Layer
    \/ Tick
    \/ \E t \in Threads : Spawn(t)
    \/ \E t \in Threads, inp \in Inputs : Handle(t, inp)
    \/ \E t \in Threads : IsAllowNoTable(t)
    \/ \E t \in Threads : IsAllow(t)
    \/ \E t \in Threads, o \in InnerOutcomes : InnerReturn(t, o)
    \/ \E t \in Threads, idx \in RuleIdx : AddPermits(t, idx)

Spec == Init /\ [][Next]_vars

\* ------------------------------------------------- the Mutex, step by step
\* The same program with instances.lock() and the code under the guard as
\* separate steps: a thread at "is_allow" or "add_permits" is waiting for the
\* Mutex, a thread at "scan" or "add" holds it.

\* The rule lists and the number of handle calls followed step by step.
MaxLockCalls == 2
LockConfigs == {None} \cup {Some(<<Rule("a", n, 1)>>) : n \in {0, MaxLimit}}

InitLock == Init /\ config \in LockConfigs

\* is_allow: instances.lock() returns, the Mutex was free.
LockIsAllow(t) ==
    /\ pc[t] = "is_allow"
    /\ is_some(svc[t])
    /\ tables[unwrap(svc[t])].owner = NoOwner
    /\ tables' = [tables EXCEPT ![unwrap(svc[t])].owner = t]
    /\ pc' = [pc EXCEPT ![t] = "scan"]
    /\ last' = NoResult
    /\ UNCHANGED <<config, arg, built, wrap_svc, svc, input, ret, now, stats>>

\* Variant: is_allow waits under the guard for a permit (acquire_owned().await)
\* where the code only tries.
IsAllowLockedWaiting(t) ==
    /\ pc[t] = "scan"
    /\ LET ref == unwrap(svc[t])
           s == Scan(tables[ref].v, 1, input[t], now)
       IN /\ s.ret[2]
          /\ tables' = [tables EXCEPT ![ref] = [owner |-> NoOwner, v |-> s.v]]
          /\ stats' = Record(stats, tables[ref].v, input[t], s.ret)
          /\ AfterIsAllow(t, s.ret)
    /\ UNCHANGED <<config, arg, built, wrap_svc, svc, now>>

\* Variant: the guard of an allowed call lives on into the inner service.
IsAllowLockedKeepGuard(t) ==
    /\ pc[t] = "scan"
    /\ LET ref == unwrap(svc[t])
           s == Scan(tables[ref].v, 1, input[t], now)
       IN /\ tables' = [tables EXCEPT ![ref] =
                [owner |-> IF s.ret[2] THEN t ELSE NoOwner, v |-> s.v]]
          /\ stats' = Record(stats, tables[ref].v, input[t], s.ret)
          /\ AfterIsAllow(t, s.ret)
    /\ UNCHANGED <<config, arg, built, wrap_svc, svc, now>>

\* is_allow under the guard: the loop, the guard dropped on return, and
\* handle's branch on the result.
IsAllowLocked(t) ==
    /\ pc[t] = "scan"
    /\ LET ref == unwrap(svc[t])
           s == Scan(tables[ref].v, 1, input[t], now)
       IN /\ tables' = [tables EXCEPT ![ref] = [owner |-> NoOwner, v |-> s.v]]
          /\ stats' = Record(stats, tables[ref].v, input[t], s.ret)
          /\ AfterIsAllow(t, s.ret)
    /\ UNCHANGED <<config, arg, built, wrap_svc, svc, now>>

\* Thread t calls add_permits(idx): self.instances.as_mut().unwrap() panics
\* without a table, otherwise the thread goes for the Mutex.
AddPermitsCall(t, idx) ==
    /\ pc[t] = "idle"
    /\ stats.releases < MaxReleases
    /\ stats' = [stats EXCEPT !.releases = @ + 1]
    /\ IF is_none(svc[t])
       THEN /\ pc' = [pc EXCEPT ![t] = "panicked"]
            /\ UNCHANGED arg
       ELSE /\ pc' = [pc EXCEPT ![t] = "add_permits"]
            /\ arg' = [arg EXCEPT ![t] = idx]
    /\ last' = NoResult
    /\ UNCHANGED <<config, built, wrap_svc, tables, svc, input, ret, now>>

\* add_permits: instances.lock() returns, the Mutex was free.
LockAddPermits(t) ==
    /\ pc[t] = "add_permits"
    /\ tables[unwrap(svc[t])].owner = NoOwner
    /\ tables' = [tables EXCEPT ![unwrap(svc[t])].owner = t]
    /\ pc' = [pc EXCEPT ![t] = "add"]
    /\ last' = NoResult
    /\ UNCHANGED <<config, arg, built, wrap_svc, svc, input, ret, now, stats>>

\* add_permits under the guard: instances[idx].semaphore.add_permits(1);
\* indexing past the end panics, and unwinding drops the guard.
AddPermitsLocked(t) ==
    /\ pc[t] = "add"
    /\ LET ref == unwrap(svc[t])
           v == tables[ref].v
           idx == arg[t]
       IN IF idx + 1 > Len(v)
          THEN /\ pc' = [pc EXCEPT ![t] = "panicked"]
               /\ tables' = [tables EXCEPT ![ref].owner = NoOwner]
               /\ UNCHANGED stats
          ELSE /\ pc' = [pc EXCEPT ![t] = "idle"]
               /\ tables' = [tables EXCEPT ![ref] =
                     [owner |-> NoOwner,
                      v |-> [v EXCEPT ![idx + 1].permits = add_one_permit(@)]]]
               /\ stats' = [stats EXCEPT !.released = Bump(@, idx)]
    /\ arg' = [arg EXCEPT ![t] = 0]
    /\ last' = NoResult
    /\ UNCHANGED <<config, built, wrap_svc, svc, input, ret, now>>

NextLock ==
    \/ Layer
    \/ Tick
    \/ \E t \in Threads : Spawn(t)
    \/ \E t \in Threads, inp \in Inputs : stats.calls < MaxLockCalls /\ Handle(t, inp)
    \/ \E t \in Threads : IsAllowNoTable(t)
    \/ \E t \in Threads : LockIsAllow(t)
    \/ \E t \in Threads : IsAllowLocked(t)
    \/ \E t \in Threads, o \in InnerOutcomes : InnerReturn(t, o)
    \/ \E t \in Threads, idx \in RuleIdx : AddPermitsCall(t, idx)
    \/ \E t \in Threads : LockAddPermits(t)
    \/ \E t \in Threads : AddPermitsLocked(t)

\* The steps of thread t inside is_allow and add_permits.
MutexStep(t) ==
    \/ IsAllowNoTable(t)
    \/ LockIsAllow(t)
    \/ IsAllowLocked(t)
    \/ LockAddPermits(t)
    \/ AddPermitsLocked(t)

\* A thread inside is_allow or add_permits that can take its next step (it
\* needs no Mutex, holds it, or waits for it while it stays free) takes it.
FairLock == \A t \in Threads : WF_vars(MutexStep(t))

SpecLock == InitLock /\ [][NextLock]_vars /\ FairLock

\* ------------------------------------------------- callers that give back
\* The same program driven by callers that call add_permits(idx) once for
\* every call that is_allow admitted with Some(idx), after the inner service
\* returned, and at no other time.

\* self.inner.handle(input) returns with outcome o, as in InnerReturn; the
\* caller of a call admitted with Some(idx) goes on to add_permits(idx).
InnerReturnOwing(t, o) ==
    /\ pc[t] = "inner"
    /\ last' = IF o = "Ok" THEN Ok(ret[t][1], input[t]) ELSE Err(o)
    /\ input' = [input EXCEPT ![t] = NoInput]
    /\ IF is_some(ret[t][1])
       THEN /\ pc' = [pc EXCEPT ![t] = "release"]
            /\ arg' = [arg EXCEPT ![t] = unwrap(ret[t][1])]
       ELSE /\ pc' = [pc EXCEPT ![t] = "idle"]
            /\ UNCHANGED arg
    /\ ret' = [ret EXCEPT ![t] = NoRet]
    /\ UNCHANGED <<config, built, wrap_svc, tables, svc, now, stats>>

\* The caller's add_permits(idx): instances.lock() and
\* instances[idx].semaphore.add_permits(1) under the guard.
Release(t) ==
    /\ pc[t] = "release"
    /\ LET ref == unwrap(svc[t])
           v == tables[ref].v
           idx == arg[t]
       IN /\ tables[ref].owner = NoOwner
          /\ tables' = [tables EXCEPT ![ref] =
                [owner |-> NoOwner,
                 v |-> [v EXCEPT ![idx + 1].permits = add_one_permit(@)]]]
          /\ stats' = [stats EXCEPT !.releases = @ + 1, !.released = Bump(@, idx)]
    /\ pc' = [pc EXCEPT ![t] = "idle"]
    /\ arg' = [arg EXCEPT ![t] = 0]
    /\ last' = NoResult
    /\ UNCHANGED <<config, built, wrap_svc, svc, input, ret, now>>

NextOwing ==
    \/ Layer
    \/ Tick
    \/ \E t \in Threads : Spawn(t)
    \/ \E t \in Threads, inp \in Inputs : Handle(t, inp)
    \/ \E t \in Threads : IsAllowNoTable(t)
    \/ \E t \in Threads : IsAllow(t)
    \/ \E t \in Threads, o \in InnerOutcomes : InnerReturnOwing(t, o)
    \/ \E t \in Threads : Release(t)

SpecOwing == Init /\ [][NextOwing]_vars

\* ---------------------------------------------------------------- claims
\* The table the layer built (position 1 of the heap) and its rules.
HasTable == built = "yes" /\ is_some(wrap_svc)
Table == tables[1].v
Rules == 1..Len(Table)

\* Thread t's call is evaluated by is_allow in this step; the table it reads,
\* and the position of the first rule matching its input (0 if none).
Evaluates(t) == pc[t] = "is_allow" /\ pc'[t] # "is_allow"
TableOf(t) == tables[unwrap(svc[t])].v
TableOf2(t) == tables'[unwrap(svc[t])].v
Matched(t) == IF is_some(svc[t]) THEN FirstMatch(TableOf(t), input[t]) ELSE 0

\* What is_allow returned to thread t in this step, as the caller sees it.
AdmittedAs(t, idx) == pc'[t] = "inner" /\ ret'[t] = <<idx, TRUE>>
DeniedAt(t, i) ==
    /\ pc'[t] = "idle"
    /\ stats'.rejected = Bump(stats.rejected, i)
    /\ stats'.admitted = stats.admitted

WindowOpen(c, t) == is_some(c.start_at) /\ t - unwrap(c.start_at) <= c.duration
WindowExpired(c, t) == is_some(c.start_at) /\ t - unwrap(c.start_at) > c.duration

Min(a, b) == IF a <= b THEN a ELSE b

\* C1: for a rule of capacity N on which no release was issued and no expiry
\* was observed, of the M calls evaluated so far whose first matching rule it
\* is, exactly min(N, M) were admitted and the other M - min(N, M) rejected:
\* with M >= N + 1, exactly N admitted and M - N rejected.
C1_ExactlyCapacityAdmitted ==
    HasTable =>
        \A i \in Rules :
            (stats.released[i - 1] = 0 /\ stats.passes[i - 1] = <<>>) =>
                /\ stats.admitted[i - 1] = Min(Table[i].limit_size, stats.matched[i - 1])
                /\ stats.rejected[i - 1] = stats.matched[i - 1] - stats.admitted[i - 1]
                /\ Table[i].permits = Table[i].limit_size - stats.admitted[i - 1]

\* Two overlapping calls on a rule of capacity 1: one is inside the downstream
\* handler, the other was rejected.
C1_Witness ==
    /\ HasTable
    /\ \E i \in Rules, t \in Threads :
        /\ Table[i].limit_size = 1
        /\ stats.released[i - 1] = 0 /\ stats.passes[i - 1] = <<>>
        /\ stats.matched[i - 1] >= 2
        /\ stats.admitted[i - 1] = 1
        /\ stats.rejected[i - 1] = stats.matched[i - 1] - 1
        /\ pc[t] = "inner" /\ ret[t] = <<Some(i - 1), TRUE>>
        /\ last = Err("LimitPluginReject")

\* C2: every rule's available permit count is at most its capacity.
C2_PermitsWithinCapacity ==
    \A k \in 1..Len(tables) : \A i \in 1..Len(tables[k].v) :
        tables[k].v[i].permits <= tables[k].v[i].limit_size

\* C3: a call whose first matching rule has an expired window is admitted
\* with index None whatever permits remain, and resets the rule to window not
\* opened and permits = capacity without taking one; a call whose first matching
\* rule is in that reset state (capacity > 0) opens the window at the current
\* time and is admitted with the rule's index, leaving capacity - 1 permits.
C3_ExpiryFreePassThenCharged ==
    [][\A t \in Threads :
        (Evaluates(t) /\ Matched(t) # 0) =>
            LET m == Matched(t)
                c == TableOf(t)[m]
                d == TableOf2(t)[m]
            IN /\ WindowExpired(c, now) =>
                    /\ AdmittedAs(t, None)
                    /\ d.start_at = None
                    /\ d.permits = c.limit_size
                    /\ stats'.admitted = stats.admitted
               /\ (is_none(c.start_at) /\ c.permits = c.limit_size /\ c.limit_size > 0) =>
                    /\ AdmittedAs(t, Some(m - 1))
                    /\ d.start_at = Some(now)
                    /\ d.permits = c.limit_size - 1]_vars

\* Capacity 1: A admitted, B denied in the window, C passed free after expiry,
\* D admitted with the rule's index, leaving 0 permits.
C3_Witness ==
    /\ HasTable
    /\ \E i \in Rules, t \in Threads :
        /\ Table[i].limit_size = 1
        /\ stats.released[i - 1] = 0
        /\ stats.admitted[i - 1] = 2
        /\ stats.rejected[i - 1] = 1
        /\ Len(stats.passes[i - 1]) = 1
        /\ pc[t] = "inner" /\ ret[t] = <<Some(i - 1), TRUE>>
        /\ Table[i].permits = 0
        /\ Table[i].start_at = Some(now)

\* History: no window start of a rule appears twice among its free passes.
PassesDistinct ==
    \A i \in RuleIdx : \A j, k \in 1..Len(stats.passes[i]) :
        j # k => stats.passes[i][j] # stats.passes[i][k]

\* C4: no window of a rule gives more than one free pass, however many calls
\* wait at the lock when it expires: the call that takes the pass leaves the rule
\* reset, and a call that finds the rule reset is evaluated as an attributed
\* request (admitted or denied with the rule's index, charged to the new window).
C4_OneFreePassPerExpiry ==
    /\ []PassesDistinct
    /\ [][\A t \in Threads :
            (Evaluates(t) /\ Matched(t) # 0) =>
                LET m == Matched(t)
                    c == TableOf(t)[m]
                    d == TableOf2(t)[m]
                IN /\ AdmittedAs(t, None) =>
                        /\ WindowExpired(c, now)
                        /\ is_none(d.start_at)
                        /\ stats'.passes[m - 1] = Append(stats.passes[m - 1], c.start_at)
                   /\ is_none(c.start_at) =>
                        /\ AdmittedAs(t, Some(m - 1)) \/ DeniedAt(t, m - 1)
                        /\ d.start_at = Some(now)
                        /\ d.permits = IF c.permits > 0 THEN c.permits - 1 ELSE 0]_vars

\* Two calls after the expiry of a window: one holds the free pass, the other
\* was evaluated against the window it opened.
C4_Witness ==
    /\ HasTable
    /\ \E i \in Rules, t, u \in Threads :
        /\ t # u
        /\ pc[t] = "inner" /\ ret[t] = <<None, TRUE>> /\ Matched(t) = i
        /\ pc[u] = "inner" /\ ret[u] = <<Some(i - 1), TRUE>>
        /\ Len(stats.passes[i - 1]) = 1
        /\ Table[i].start_at = Some(now)
        /\ now - unwrap(stats.passes[i - 1][1]) > Table[i].duration

\* C5: an evaluation changes no rule other than the first rule matching the
\* input: earlier rules, later rules (matching or not) and, when nothing
\* matches, all rules keep their permits and window_start.
C5_FirstMatchOnly ==
    [][\A t \in Threads :
        (Evaluates(t) /\ is_some(svc[t])) =>
            /\ Len(TableOf2(t)) = Len(TableOf(t))
            /\ \A j \in 1..Len(TableOf(t)) :
                   j # Matched(t) => TableOf2(t)[j] = TableOf(t)[j]]_vars

\* Two rules that both match "a": the first has admitted, denied and given a
\* free pass, and the second is as it was built.
C5_Witness ==
    /\ HasTable
    /\ Len(Table) = 2
    /\ is_match(Table[1].regex, "a") /\ is_match(Table[2].regex, "a")
    /\ stats.admitted[0] >= 1 /\ stats.rejected[0] >= 1 /\ Len(stats.passes[0]) >= 1
    /\ stats.matched[1] = 0 /\ stats.released[1] = 0
    /\ Table[2].start_at = None /\ Table[2].permits = Table[2].limit_size

\* C6: a call whose input matches no rule (or whose service has no table) is
\* admitted with index None and leaves every table as it was.
C6_UnmatchedAdmitted ==
    [][\A t \in Threads :
        (Evaluates(t) /\ Matched(t) = 0) =>
            /\ AdmittedAs(t, None)
            /\ tables' = tables
            /\ stats' = stats]_vars

\* "b" admitted unattributed by a table of two rules matching only "a" while
\* the first rule is exhausted.
C6_Witness ==
    /\ HasTable
    /\ Len(Table) = 2
    /\ \E t \in Threads :
        /\ pc[t] = "inner" /\ input[t] = "b" /\ ret[t] = <<None, TRUE>>
        /\ Matched(t) = 0
    /\ Table[1].permits = 0 /\ is_some(Table[1].start_at)
    /\ stats.passes = [i \in RuleIdx |-> <<>>]

\* C7: for a rule of capacity 0 with no release issued on it, a matching call
\* evaluated while the window is not expired is denied with the rule's index
\* and handle returns LimitPluginReject; the first such call opens the window.
C7_ZeroCapacityDenies ==
    [][\A t \in Threads :
        (Evaluates(t) /\ Matched(t) # 0) =>
            LET m == Matched(t)
                c == TableOf(t)[m]
                d == TableOf2(t)[m]
            IN (c.limit_size = 0 /\ stats.released[m - 1] = 0 /\ ~WindowExpired(c, now)) =>
                    /\ DeniedAt(t, m - 1)
                    /\ last' = Err("LimitPluginReject")
                    /\ d.start_at = IF is_none(c.start_at) THEN Some(now) ELSE c.start_at
                    /\ d.permits = 0]_vars

\* A rule of capacity 0 has denied twice in one window, the second time when
\* time had passed since the window opened.
C7_Witness ==
    /\ HasTable
    /\ \E i \in Rules :
        /\ Table[i].limit_size = 0
        /\ stats.released[i - 1] = 0 /\ stats.passes[i - 1] = <<>>
        /\ stats.rejected[i - 1] = 2 /\ stats.admitted[i - 1] = 0
        /\ WindowOpen(Table[i], now) /\ now > unwrap(Table[i].start_at)
    /\ last = Err("LimitPluginReject")

\* is_allow denies thread t's call in this step (as the history records it).
GateDenied(t) ==
    Evaluates(t) /\ \E i \in RuleIdx : stats'.rejected[i] = stats.rejected[i] + 1

\* C8: when is_allow denies, handle returns Err(LimitPluginReject) in the same
\* step and the thread does not enter the inner service; a thread enters the
\* inner service only from an evaluation that allowed its call.
C8_DeniedNeverReachesInner ==
    /\ [](\A t \in Threads : pc[t] = "inner" => ret[t][2])
    /\ [][\A t \in Threads :
            /\ GateDenied(t) => (pc'[t] = "idle" /\ last' = Err("LimitPluginReject"))
            /\ (pc[t] # "inner" /\ pc'[t] = "inner") =>
                   (Evaluates(t) /\ ~GateDenied(t) /\ ret'[t][2])]_vars

\* A rejection was just returned and the inner service was never entered.
C8_Witness ==
    /\ last = Err("LimitPluginReject")
    /\ \A t \in Threads : pc[t] = "idle"
    /\ \A i \in RuleIdx : stats.admitted[i] = 0 /\ stats.passes[i] = <<>>
    /\ \E i \in RuleIdx : stats.rejected[i] = stats.calls /\ stats.calls >= 2

\* C9: the return of the inner service leaves every table as it is, and a
\* rule's permit count grows only by add_permits on that rule (by one) or by
\* the reset of an expired window (to capacity).
C9_HandleNeverReleases ==
    [][/\ \A t \in Threads : (pc[t] = "inner" /\ pc'[t] = "idle") => tables' = tables
       /\ (Len(tables) >= 1 /\ Len(tables') >= 1) =>
            \A i \in 1..Len(tables[1].v) :
                tables'[1].v[i].permits > tables[1].v[i].permits =>
                    \/ /\ stats'.released = Bump(stats.released, i - 1)
                       /\ tables'[1].v[i].permits = tables[1].v[i].permits + 1
                    \/ /\ Len(stats'.passes[i - 1]) = Len(stats.passes[i - 1]) + 1
                       /\ tables'[1].v[i].permits = tables[1].v[i].limit_size]_vars

\* An attributed call has just returned from the inner service and the rule's
\* permit is still taken.
C9_Witness ==
    /\ HasTable
    /\ last.tag = "Ok" /\ is_some(last.idx)
    /\ \A t \in Threads : pc[t] = "idle"
    /\ LET i == unwrap(last.idx) + 1 IN
        /\ stats.released[i - 1] = 0 /\ stats.passes[i - 1] = <<>>
        /\ stats.admitted[i - 1] = 1
        /\ Table[i].permits = Table[i].limit_size - 1

\* C10: every clone refers to the table the layer built, there is no other
\* table, and so the admissions of all clones together stay within a rule's
\* capacity while no release was issued on it and no expiry observed.
C10_ClonesShareTable ==
    /\ Len(tables) <= 1
    /\ \A t \in Threads : pc[t] # "new" => svc[t] = wrap_svc
    /\ HasTable =>
        \A i \in Rules :
            (stats.released[i - 1] = 0 /\ stats.passes[i - 1] = <<>>) =>
                stats.admitted[i - 1] <= Table[i].limit_size

\* Thread 1's clone took the only permit of a rule; thread 2's call through
\* its own clone was rejected for it.
C10_Witness ==
    /\ HasTable
    /\ \A t \in Threads : pc[t] # "new" /\ svc[t] = Some(1)
    /\ \E i \in Rules :
        /\ Table[i].limit_size = 1
        /\ pc[1] = "inner" /\ ret[1] = <<Some(i - 1), TRUE>>
        /\ pc[2] = "idle"
        /\ stats.matched[i - 1] = 2 /\ stats.rejected[i - 1] = 1
        /\ stats.calls = 2
    /\ last = Err("LimitPluginReject")

\* The rule list is absent or empty.
PassThrough == config = None \/ config = Some(<<>>)

\* C11: a service built from an absent or an empty rule list admits every call
\* with index None, writes no table, and what it returns on success carries
\* index None.
C11_NoRulesPassThrough ==
    [][PassThrough =>
        \A t \in Threads :
            /\ Evaluates(t) => (AdmittedAs(t, None) /\ tables' = tables /\ stats' = stats)
            /\ (pc[t] = "inner" /\ pc'[t] = "idle" /\ last'.tag = "Ok") => last'.idx = None]_vars

\* Absent rule list: three calls were issued, two of them are inside the inner
\* service, unattributed.
C11_Witness ==
    /\ config = None /\ built = "yes"
    /\ stats.calls >= 3
    /\ \A t \in Threads : pc[t] = "inner" /\ ret[t] = <<None, TRUE>>

\* C12: add_permits(idx) with idx a rule of the table adds exactly one permit
\* to rule idx and leaves its window, every other rule and every thread as they
\* were; add_permits on anything else panics and writes nothing.
C12_ReleaseAddsOne ==
    [][stats'.releases # stats.releases =>
        \/ /\ \E t \in Threads : pc[t] = "idle" /\ pc'[t] = "panicked"
           /\ tables' = tables
           /\ stats'.released = stats.released
        \/ /\ HasTable
           /\ \E idx \in RuleIdx :
                /\ idx < Len(Table)
                /\ stats'.released = Bump(stats.released, idx)
                /\ tables' = [tables EXCEPT ![1].v[idx + 1].permits = @ + 1]
           /\ pc' = pc]_vars

\* A permit taken in an open window was given back: the rule is full again and
\* the window is still the one the admission opened.
C12_Witness ==
    /\ HasTable
    /\ \E i \in Rules :
        /\ stats.released[i - 1] = 1 /\ stats.admitted[i - 1] = 1
        /\ stats.passes[i - 1] = <<>>
        /\ is_some(Table[i].start_at)
        /\ Table[i].limit_size = 1 /\ Table[i].permits = 1

\* C14: building from a rule list with a pattern that does not compile ends
\* with the error value InvalidPattern and no table.
C14_InvalidPatternIsError ==
    (create_instances_panics(config) /\ built # "no") =>
        (built = "InvalidPattern" /\ tables = <<>> /\ wrap_svc = None)

\* C16: the return of the inner service is returned as it is (the
\* output with the gate's index, or the error), and handle returns
\* LimitPluginReject only in a step in which is_allow denied.
C16_RejectOnlyFromGate ==
    [][/\ \A t \in Threads :
            (pc[t] = "inner" /\ pc'[t] = "idle") =>
                (last' = Ok(ret[t][1], input[t]) \/ \E e \in InnerErrors : last' = Err(e))
       /\ last' = Err("LimitPluginReject") => \E u \in Threads : GateDenied(u)]_vars

\* C17: a rule's window_start changes only in two ways: from None to
\* Some(now) by the evaluation of a call whose first matching rule it is
\* (admitted or denied with its index), and from Some to None by such a call
\* that finds the window expired and is passed free. A matching call that finds
\* None always opens the window; admissions and denials inside the window and
\* add_permits leave it as it is.
C17_FixedWindow ==
    [][(Len(tables) >= 1 /\ Len(tables') >= 1) =>
        \A i \in 1..Len(tables[1].v) :
            LET c == tables[1].v[i]
                d == tables'[1].v[i]
            IN /\ d.start_at # c.start_at =>
                    \E t \in Threads :
                        /\ Evaluates(t) /\ Matched(t) = i
                        /\ \/ /\ is_none(c.start_at) /\ d.start_at = Some(now)
                              /\ AdmittedAs(t, Some(i - 1)) \/ DeniedAt(t, i - 1)
                           \/ /\ WindowExpired(c, now) /\ d.start_at = None
                              /\ AdmittedAs(t, None)
               /\ \A t \in Threads :
                    (Evaluates(t) /\ Matched(t) = i /\ is_none(c.start_at)) =>
                        d.start_at = Some(now)]_vars

\* In a window opened earlier, a call was admitted, another denied, and a
\* permit given back: the window start is still the opening time.
C17_Witness ==
    /\ HasTable
    /\ \E i \in Rules :
        /\ stats.admitted[i - 1] >= 1 /\ stats.rejected[i - 1] >= 1
        /\ stats.released[i - 1] = 1
        /\ stats.passes[i - 1] = <<>>
        /\ is_some(Table[i].start_at) /\ unwrap(Table[i].start_at) < now

\* C18: a matching call evaluated when now - window_start equals the duration
\* is treated as inside the window (admitted or denied with the rule's index,
\* one permit taken if there is one, window kept); a free pass is given only
\* when now - window_start is greater than the duration.
C18_StrictExpiry ==
    [][\A t \in Threads :
        (Evaluates(t) /\ Matched(t) # 0) =>
            LET m == Matched(t)
                c == TableOf(t)[m]
                d == TableOf2(t)[m]
            IN /\ (is_some(c.start_at) /\ now - unwrap(c.start_at) = c.duration) =>
                    /\ IF c.permits > 0 THEN AdmittedAs(t, Some(m - 1))
                                        ELSE DeniedAt(t, m - 1)
                    /\ d.start_at = c.start_at
                    /\ d.permits = IF c.permits > 0 THEN c.permits - 1 ELSE 0
               /\ AdmittedAs(t, None) => now - unwrap(c.start_at) > c.duration]_vars

\* Every call so far was denied by a rule of capacity 0, the latest just now,
\* exactly one duration after the window opened.
C18_Witness ==
    /\ HasTable
    /\ last = Err("LimitPluginReject")
    /\ \E i \in Rules :
        /\ stats.rejected[i - 1] = stats.calls /\ stats.calls >= 2
        /\ is_some(Table[i].start_at)
        /\ now - unwrap(Table[i].start_at) = Table[i].duration

\* C20: a rule denies only inside its window (now - window_start <= duration
\* after the denial), whatever its capacity and however many permits leaked:
\* once the clock is past window_start + duration, the next matching call
\* evaluated is admitted.
C20_NoDenialAfterExpiry ==
    [][\A t \in Threads :
        (Evaluates(t) /\ Matched(t) # 0) =>
            LET m == Matched(t)
                c == TableOf(t)[m]
                d == TableOf2(t)[m]
            IN /\ WindowExpired(c, now) => pc'[t] = "inner"
               /\ pc'[t] = "idle" => (DeniedAt(t, m - 1) /\ WindowOpen(d, now))]_vars

\* A rule of capacity 0 denied a call, its window expired, and the next
\* matching call is inside the inner service.
C20_Witness ==
    /\ HasTable
    /\ \E i \in Rules, t \in Threads :
        /\ Table[i].limit_size = 0
        /\ stats.rejected[i - 1] >= 1 /\ stats.admitted[i - 1] = 0
        /\ Len(stats.passes[i - 1]) = 1
        /\ pc[t] = "inner" /\ Matched(t) = i /\ ret[t] = <<None, TRUE>>

\* The thread that holds the Mutex of the table thread t uses, or NoOwner.
OwnerFor(t) == tables[unwrap(svc[t])].owner

\* Thread t waits for the Mutex or holds it.
AtMutex(t) == pc[t] \in {"is_allow", "add_permits", "scan", "add"} /\ is_some(svc[t])

\* C13: is_allow and add_permits never wait for a permit: the thread that
\* holds the Mutex can always take its next step, whatever the permit counts,
\* and a thread waiting for the Mutex can take it or its holder can finish.
\* With a fair Mutex no thread stays inside is_allow or add_permits for ever:
\* every is_allow ends in a decision (the inner service is entered, or the
\* call returns) and every add_permits returns or panics.
C13_NeverWaitsForPermit ==
    /\ [](\A t \in Threads :
            /\ pc[t] = "scan" => ENABLED IsAllowLocked(t)
            /\ pc[t] = "add" => ENABLED AddPermitsLocked(t)
            /\ (pc[t] = "is_allow" /\ is_none(svc[t])) => ENABLED IsAllowNoTable(t)
            /\ (pc[t] = "is_allow" /\ is_some(svc[t])) =>
                    (ENABLED LockIsAllow(t) \/ pc[OwnerFor(t)] \in {"scan", "add"})
            /\ pc[t] = "add_permits" =>
                    (ENABLED LockAddPermits(t) \/ pc[OwnerFor(t)] \in {"scan", "add"}))
    /\ \A t \in Threads :
            []<>(pc[t] \notin {"is_allow", "scan", "add_permits", "add"})

\* No permit is left and none was ever given back; a call was denied, and the
\* next call for the same rule is under the guard.
C13_Witness ==
    /\ HasTable
    /\ stats.releases = 0
    /\ \E i \in Rules, t \in Threads :
        /\ Table[i].permits = 0 /\ stats.rejected[i - 1] >= 1
        /\ pc[t] = "scan" /\ Matched(t) = i

\* C15: the Mutex is never held by a thread that is inside the inner service:
\* its holder is always a thread inside is_allow or add_permits on that table.
\* While a thread is inside the inner service, a thread that waits for the
\* Mutex can take it, or its holder can finish.
C15_MutexNotHeldInInner ==
    /\ \A r \in 1..Len(tables) :
            tables[r].owner # NoOwner =>
                /\ pc[tables[r].owner] \in {"scan", "add"}
                /\ svc[tables[r].owner] = Some(r)
    /\ \A t, u \in Threads :
            (pc[t] = "inner" /\ AtMutex(u)) =>
                /\ OwnerFor(u) # t
                /\ \/ ENABLED LockIsAllow(u)
                   \/ ENABLED LockAddPermits(u)
                   \/ \E w \in Threads : ENABLED IsAllowLocked(w) \/ ENABLED AddPermitsLocked(w)

\* One thread is inside the inner service while another holds the Mutex in
\* is_allow.
C15_Witness ==
    /\ HasTable
    /\ \E t, u \in Threads :
        /\ pc[t] = "inner" /\ is_some(ret[t][1])
        /\ pc[u] = "scan" /\ tables[1].owner = u

\* C19: with callers that give back exactly one permit per attributed
\* admission after the inner service returned, the number of calls attributed
\* to a rule that are inside the inner service at the same time never exceeds
\* the rule's capacity.
C19_AttributedInsideWithinCapacity ==
    HasTable =>
        \A i \in Rules :
            Cardinality({t \in Threads : pc[t] = "inner" /\ ret[t][1] = Some(i - 1)})
                <= Table[i].limit_size

====
